---- MODULE Spec2Model ----
(***************************************************************************)
(* Model of the release partitioner of cocogitto,                          *)
(* crates/cocogitto/src/command/changelog.rs : release_from_commits.       *)
(*                                                                         *)
(* An Option<T> is modelled as a sequence of length 0 (None) or 1 (Some).  *)
(* A commit hash is a number; the commits of one input are numbered by age *)
(* (hash 1 is the oldest), so hashes of one input are pairwise distinct.   *)
(***************************************************************************)
EXTENDS Integers, Sequences, FiniteSets, TLC

VARIABLES
    commits,          \* the CommitIter handed to release_from_commits (newest first)
    commit_iter,      \* what is left of commits.into_iter().rev().peekable()
    release_commits,  \* the group being accumulated by the inner for loop
    releases,         \* the groups pushed so far (each newest first)
    release_idx,      \* position of `for release in releases`
    current,          \* Option<Release>: the fold accumulator
    result,           \* Option<Result<Release, ChangelogError>>
    now,              \* the clock read by Utc::now()
    pc,               \* position inside release_from_commits
    warnings,         \* the hashes passed to warn!, in call order
    clock_set_back,   \* history: the wall clock was set back during the call
    settings,         \* SETTINGS.changelog as read by the template selectors
    selected,         \* Option<(selector, name passed on, Result<Template, ChangelogError>)>
    renderer,         \* the Renderer: template kind and monorepo context
    rendered_release, \* the Release handed to Renderer::render
    changelog         \* Option<the rendered changelog>

partition_vars == <<commits, commit_iter, release_commits, releases, release_idx,
                    current, result, now, pc, warnings, clock_set_back>>
selection_vars == <<settings, selected>>
render_vars == <<renderer, rendered_release, changelog>>

vars == <<partition_vars, selection_vars, render_vars>>

\* ------------------------------------------------------------------ bounds
MaxLen == 4
MaxClock == 1
\* the longest commits list of a rendered release
MaxCommits == 3

\* ------------------------------------------------------------------ data
None == <<>>
Some(x) == <<x>>

OidKinds == {"Tag", "Other"}
\* commit messages: two conventional types (one configured as omitted from
\* the changelog) and a message that is not a conventional commit
Messages == {"feat", "chore", "invalid"}
OmittedTypes == {"chore"}

OidOf(kind, hash) == [kind |-> kind, hash |-> hash]

\* one (OidOf, git2::Commit) pair of the CommitIter
Entry(kind, hash, message) ==
    [oid |-> OidOf(kind, hash), commit |-> [hash |-> hash, message |-> message]]

\* a CommitIter of n commits, newest first: position i holds hash n - i + 1
CommitIterOf(n) ==
    { [i \in 1..n |-> Entry(k[i], n - i + 1, m[i])] :
        k \in [1..n -> OidKinds], m \in [1..n -> Messages] }

CommitIters == UNION { CommitIterOf(n) : n \in 0..MaxLen }

\* ------------------------------------------------------------------ helpers
\* Iterator::rev / Vec::reverse
Reverse(s) == [i \in 1..Len(s) |-> s[Len(s) - i + 1]]

\* matches!(oid, OidOf::Tag(_))
is_tag(oid) == oid.kind = "Tag"

\* Commit::from_git_commit: Ok(commit) for a conventional message, Err otherwise
from_git_commit(commit) ==
    IF commit.message = "invalid"
    THEN [ok |-> FALSE, commit_type |-> "", oid |-> commit.hash]
    ELSE [ok |-> TRUE, commit_type |-> commit.message, oid |-> commit.hash]

\* SETTINGS.should_omit_commit
should_omit_commit(commit_type) == commit_type \in OmittedTypes

\* SETTINGS.get_changelog_title
get_changelog_title(commit_type) ==
    IF commit_type = "feat" THEN "Features" ELSE "Miscellaneous Chores"

\* ChangelogCommit::from_commit
from_commit(commit, changelog_title) ==
    [changelog_title |-> changelog_title, oid |-> commit.oid,
     commit_type |-> commit.commit_type]

\* the closure of filter_map: Some(ChangelogCommit) or None
classify_keep_invalid(entry) ==
    LET parsed == from_git_commit(entry.commit) IN
    IF parsed.ok /\ should_omit_commit(parsed.commit_type)
    THEN None
    ELSE Some(from_commit(parsed, get_changelog_title(parsed.commit_type)))

classify_no_omit(entry) ==
    LET parsed == from_git_commit(entry.commit) IN
    IF parsed.ok
    THEN Some(from_commit(parsed, get_changelog_title(parsed.commit_type)))
    ELSE None

classify(entry) ==
    LET parsed == from_git_commit(entry.commit) IN
    IF parsed.ok
    THEN IF ~should_omit_commit(parsed.commit_type)
         THEN Some(from_commit(parsed, get_changelog_title(parsed.commit_type)))
         ELSE None
    ELSE None

\* the Err arm of the closure: warn!("{}", err) for a commit that does not parse
warn_of_excluded(entry) ==
    IF classify(entry) = None THEN <<entry.commit.hash>> ELSE <<>>

warn_of(entry) ==
    IF from_git_commit(entry.commit).ok THEN <<>> ELSE <<entry.commit.hash>>

\* the warnings logged while the commits of one group are collected
RECURSIVE warned(_)
warned(release) ==
    IF release = <<>> THEN <<>>
    ELSE warn_of(Head(release)) \o warned(Tail(release))

\* release.iter().filter_map(..).collect()
RECURSIVE filter_map(_)
filter_map(release) ==
    IF release = <<>> THEN <<>>
    ELSE classify(Head(release)) \o filter_map(Tail(release))

\* version: release.first().unwrap().0.clone()
version_last(release) == release[Len(release)].oid

version_of(release) == release[1].oid

\* from: current.as_ref().map(|c| c.version.clone()).unwrap_or(release.last().unwrap().0.clone())
from_first(cur, release) ==
    IF cur # None THEN cur[1].version ELSE release[1].oid

from_previous_from(cur, release) ==
    IF cur # None THEN cur[1].from ELSE release[Len(release)].oid

from_of(cur, release) ==
    IF cur # None THEN cur[1].version ELSE release[Len(release)].oid

\* the Release literal of the fold
Release_date_read_once(release, cur, date) ==
    [version |-> version_of(release),
     from |-> from_of(cur, release),
     date |-> IF cur # None THEN cur[1].date ELSE date,
     commits |-> filter_map(release),
     previous |-> cur]

Release(release, cur, date) ==
    [version |-> version_of(release),
     from |-> from_of(cur, release),
     date |-> date,
     commits |-> filter_map(release),
     previous |-> cur]

\* current.ok_or(ChangelogError::EmptyRelease)
ok_or_no_commits(cur) ==
    IF cur = None \/ cur[1].commits = <<>>
    THEN [ok |-> FALSE, err |-> "EmptyRelease"]
    ELSE [ok |-> TRUE, release |-> cur[1]]

ok_or(cur) ==
    IF cur = None
    THEN [ok |-> FALSE, err |-> "EmptyRelease"]
    ELSE [ok |-> TRUE, release |-> cur[1]]

\* ------------------------------------------------------------------ state machine
Init ==
    /\ commits \in CommitIters
    /\ commit_iter = <<>>
    /\ release_commits = <<>>
    /\ releases = <<>>
    /\ release_idx = 1
    /\ current = None
    /\ result = None
    /\ now = 0
    /\ pc = "enter"
    /\ warnings = <<>>
    /\ clock_set_back = FALSE
    /\ settings = <<>>
    /\ selected = None
    /\ renderer = <<>>
    /\ rendered_release = <<>>
    /\ changelog = None

\* lines 88-89: releases = vec![]; commit_iter = commits.into_iter().rev().peekable()
Enter_no_rev ==
    /\ pc = "enter"
    /\ releases' = <<>>
    /\ commit_iter' = commits
    /\ pc' = "while"
    /\ UNCHANGED <<commits, release_commits, release_idx, current, result, now>>
    /\ UNCHANGED <<warnings, clock_set_back>>
    /\ UNCHANGED <<selection_vars, render_vars>>

Enter ==
    /\ pc = "enter"
    /\ releases' = <<>>
    /\ commit_iter' = Reverse(commits)
    /\ pc' = "while"
    /\ UNCHANGED <<commits, release_commits, release_idx, current, result, now>>
    /\ UNCHANGED <<warnings, clock_set_back>>
    /\ UNCHANGED <<selection_vars, render_vars>>

\* line 91-92: peek() is Some: a new group starts
WhileSome_no_peek ==
    /\ pc = "while"
    /\ Len(releases) <= Len(commits)
    /\ release_commits' = <<>>
    /\ pc' = "for"
    /\ UNCHANGED <<commits, commit_iter, releases, release_idx, current, result, now>>
    /\ UNCHANGED <<warnings, clock_set_back>>
    /\ UNCHANGED <<selection_vars, render_vars>>

WhileSome ==
    /\ pc = "while"
    /\ commit_iter # <<>>
    /\ release_commits' = <<>>
    /\ pc' = "for"
    /\ UNCHANGED <<commits, commit_iter, releases, release_idx, current, result, now>>
    /\ UNCHANGED <<warnings, clock_set_back>>
    /\ UNCHANGED <<selection_vars, render_vars>>

\* line 91 and 106: peek() is None: the grouping loop ends, current = None
WhileNone ==
    /\ pc = "while"
    /\ commit_iter = <<>>
    /\ current' = None
    /\ release_idx' = 1
    /\ pc' = "fold"
    /\ UNCHANGED <<commits, commit_iter, release_commits, releases, result, now>>
    /\ UNCHANGED <<warnings, clock_set_back>>
    /\ UNCHANGED <<selection_vars, render_vars>>

\* lines 94-97 and 102-103: the next element is tagged: push it, break,
\* reverse the group and push it on releases
ForTag_no_break ==
    /\ pc = "for"
    /\ commit_iter # <<>>
    /\ is_tag(Head(commit_iter).oid)
    /\ release_commits' = Append(release_commits, Head(commit_iter))
    /\ commit_iter' = Tail(commit_iter)
    /\ UNCHANGED <<commits, releases, release_idx, current, result, now, pc>>
    /\ UNCHANGED <<warnings, clock_set_back>>
    /\ UNCHANGED <<selection_vars, render_vars>>

ForTag_opens_group ==
    /\ pc = "for"
    /\ commit_iter # <<>>
    /\ is_tag(Head(commit_iter).oid)
    /\ IF release_commits = <<>>
       THEN /\ release_commits' = <<Head(commit_iter)>>
            /\ commit_iter' = Tail(commit_iter)
            /\ UNCHANGED <<releases, pc>>
       ELSE /\ releases' = Append(releases, Reverse(release_commits))
            /\ release_commits' = <<>>
            /\ commit_iter' = commit_iter
            /\ pc' = "while"
    /\ UNCHANGED <<commits, release_idx, current, result, now>>
    /\ UNCHANGED <<warnings, clock_set_back>>
    /\ UNCHANGED <<selection_vars, render_vars>>

ForTag ==
    /\ pc = "for"
    /\ commit_iter # <<>>
    /\ is_tag(Head(commit_iter).oid)
    /\ commit_iter' = Tail(commit_iter)
    /\ release_commits' = Append(release_commits, Head(commit_iter))
    /\ releases' = Append(releases, Reverse(release_commits'))
    /\ pc' = "while"
    /\ UNCHANGED <<commits, release_idx, current, result, now>>
    /\ UNCHANGED <<warnings, clock_set_back>>
    /\ UNCHANGED <<selection_vars, render_vars>>

\* lines 94 and 99: the next element is not tagged: push it and go on
ForPush_breaks ==
    /\ pc = "for"
    /\ commit_iter # <<>>
    /\ ~is_tag(Head(commit_iter).oid)
    /\ commit_iter' = Tail(commit_iter)
    /\ release_commits' = Append(release_commits, Head(commit_iter))
    /\ releases' = Append(releases, Reverse(release_commits'))
    /\ pc' = "while"
    /\ UNCHANGED <<commits, release_idx, current, result, now>>
    /\ UNCHANGED <<warnings, clock_set_back>>
    /\ UNCHANGED <<selection_vars, render_vars>>

ForPush ==
    /\ pc = "for"
    /\ commit_iter # <<>>
    /\ ~is_tag(Head(commit_iter).oid)
    /\ commit_iter' = Tail(commit_iter)
    /\ release_commits' = Append(release_commits, Head(commit_iter))
    /\ UNCHANGED <<commits, releases, release_idx, current, result, now, pc>>
    /\ UNCHANGED <<warnings, clock_set_back>>
    /\ UNCHANGED <<selection_vars, render_vars>>

\* lines 94 and 102-103: the iterator is exhausted: the for loop ends,
\* reverse the group and push it on releases
ForEnd_no_reverse ==
    /\ pc = "for"
    /\ commit_iter = <<>>
    /\ releases' = Append(releases, release_commits)
    /\ pc' = "while"
    /\ UNCHANGED <<commits, commit_iter, release_commits, release_idx, current, result, now>>
    /\ UNCHANGED <<warnings, clock_set_back>>
    /\ UNCHANGED <<selection_vars, render_vars>>

ForEnd ==
    /\ pc = "for"
    /\ commit_iter = <<>>
    /\ releases' = Append(releases, Reverse(release_commits))
    /\ pc' = "while"
    /\ UNCHANGED <<commits, commit_iter, release_commits, release_idx, current, result, now>>
    /\ UNCHANGED <<warnings, clock_set_back>>
    /\ UNCHANGED <<selection_vars, render_vars>>

\* lines 108-147: one iteration of `for release in releases`; first() and
\* last() of an empty group are None and unwrap() panics
FoldStep ==
    /\ pc = "fold"
    /\ release_idx <= Len(releases)
    /\ IF releases[release_idx] = <<>>
       THEN /\ result' = Some([ok |-> FALSE, err |-> "panic"])
            /\ pc' = "done"
            /\ UNCHANGED <<current, release_idx, warnings>>
       ELSE /\ current' = Some(Release(releases[release_idx], current, now))
            /\ warnings' = warnings \o warned(releases[release_idx])
            /\ release_idx' = release_idx + 1
            /\ UNCHANGED <<result, pc>>
    /\ UNCHANGED <<commits, commit_iter, release_commits, releases, now>>
    /\ UNCHANGED clock_set_back
    /\ UNCHANGED <<selection_vars, render_vars>>

\* line 149: current.ok_or(ChangelogError::EmptyRelease)
Return ==
    /\ pc = "fold"
    /\ release_idx > Len(releases)
    /\ result' = Some(ok_or(current))
    /\ pc' = "done"
    /\ UNCHANGED <<commits, commit_iter, release_commits, releases, release_idx,
                   current, now>>
    /\ UNCHANGED <<warnings, clock_set_back>>
    /\ UNCHANGED <<selection_vars, render_vars>>

\* the clock read by Utc::now() advances while the call runs
Tick ==
    /\ pc # "done"
    /\ now < MaxClock
    /\ now' = now + 1
    /\ UNCHANGED <<commits, commit_iter, release_commits, releases, release_idx,
                   current, result, pc>>
    /\ UNCHANGED <<warnings, clock_set_back>>
    /\ UNCHANGED <<selection_vars, render_vars>>

\* the wall clock behind Utc::now() is the system time, which is not
\* monotonic: it can be set back while the call runs
SetBack ==
    /\ pc # "done"
    /\ now > -MaxClock
    /\ now' = now - 1
    /\ clock_set_back' = TRUE
    /\ UNCHANGED <<commits, commit_iter, release_commits, releases, release_idx,
                   current, result, pc, warnings>>
    /\ UNCHANGED <<selection_vars, render_vars>>

Next ==
    \/ Enter
    \/ WhileSome
    \/ WhileNone
    \/ ForTag
    \/ ForPush
    \/ ForEnd
    \/ FoldStep
    \/ Return
    \/ Tick

\* release_from_commits under a clock that only advances
Spec == Init /\ [][Next]_vars

\* release_from_commits under the wall clock, which can also be set back.
\* The dates do not depend on the commit messages, so every message is a
\* kept conventional commit here.
ClockInit ==
    /\ Init
    /\ \A i \in 1..Len(commits) : commits[i].commit.message = "feat"

ClockNext ==
    \/ Enter
    \/ WhileSome
    \/ WhileNone
    \/ ForTag
    \/ ForPush
    \/ ForEnd
    \/ FoldStep
    \/ Return
    \/ Tick
    \/ SetBack

ClockSpec == ClockInit /\ [][ClockNext]_vars

\* ------------------------------------------------------------------ template selection
\* the template names a configuration can hold: the nine built-in names and
\* the path of a custom template
BuiltinNames ==
    {"default", "full_hash", "remote",
     "package_default", "package_full_hash", "package_remote",
     "monorepo_default", "monorepo_full_hash", "monorepo_remote"}
TemplateNames == BuiltinNames \cup {"custom.tera"}

OptionOf(S) == {None} \cup { Some(x) : x \in S }

\* SETTINGS.changelog: template, package_template, remote, repository, owner
ChangelogSettings ==
    [template : OptionOf(TemplateNames),
     package_template : OptionOf(TemplateNames),
     remote : OptionOf({"github.com"}),
     repository : OptionOf({"cocogitto"}),
     owner : OptionOf({"oknozor"})]

\* Option::unwrap_or
unwrap_or(opt, default) == IF opt = None THEN default ELSE opt[1]

\* RemoteContext::try_new: Some only when host, repository and owner are all present
try_new(remote, repository, owner) ==
    IF remote # None /\ repository # None /\ owner # None
    THEN Some([remote |-> remote[1], repository |-> repository[1], owner |-> owner[1]])
    ELSE None

\* TemplateKind::from_arg: the variant a name stands for
kind_from_arg(name) ==
    CASE name = "default" -> "Default"
      [] name = "full_hash" -> "FullHash"
      [] name = "remote" -> "Remote"
      [] name = "package_default" -> "PackageDefault"
      [] name = "package_full_hash" -> "PackageFullHash"
      [] name = "package_remote" -> "PackageRemote"
      [] name = "monorepo_default" -> "MonorepoDefault"
      [] name = "monorepo_full_hash" -> "MonorepoFullHash"
      [] name = "monorepo_remote" -> "MonorepoRemote"
      [] OTHER -> "Custom"

RemoteKinds == {"Remote", "PackageRemote", "MonorepoRemote"}

\* Template::from_arg: a remote-linked variant needs a remote context
from_arg(name, context) ==
    IF kind_from_arg(name) \in RemoteKinds /\ context = None
    THEN [ok |-> FALSE, err |-> "MissingRemoteContext"]
    ELSE [ok |-> TRUE,
          template |-> [kind |-> kind_from_arg(name), name |-> name,
                        remote_context |-> context]]

\* get_template_context
get_template_context_host_only(st) ==
    IF st.remote # None
    THEN Some([remote |-> st.remote[1],
               repository |-> unwrap_or(st.repository, ""),
               owner |-> unwrap_or(st.owner, "")])
    ELSE None

get_template_context(st) == try_new(st.remote, st.repository, st.owner)

\* the name get_changelog_template passes to Template::from_arg
changelog_template_name(st) == unwrap_or(st.template, "default")

\* the name get_package_changelog_template passes to Template::from_arg
package_template_name_unmapped(st) == unwrap_or(st.package_template, "package_default")

package_template_name(st) ==
    LET template == unwrap_or(st.package_template, "package_default") IN
    CASE template = "remote" -> "package_remote"
      [] template = "full_hash" -> "package_full_hash"
      [] OTHER -> template

\* the name get_monorepo_changelog_template passes to Template::from_arg
monorepo_template_name(st) ==
    LET template == unwrap_or(st.template, "monorepo_default") IN
    CASE template = "remote" -> "monorepo_remote"
      [] template = "full_hash" -> "monorepo_full_hash"
      [] OTHER -> template

get_changelog_template(st) ==
    from_arg(changelog_template_name(st), get_template_context(st))

get_package_changelog_template(st) ==
    from_arg(package_template_name(st), get_template_context(st))

get_monorepo_changelog_template(st) ==
    from_arg(monorepo_template_name(st), get_template_context(st))

\* the partitioner and the renderer are idle
PartitionIdle ==
    /\ commits = <<>> /\ commit_iter = <<>> /\ release_commits = <<>>
    /\ releases = <<>> /\ release_idx = 1 /\ current = None /\ result = None
    /\ now = 0 /\ pc = "idle" /\ warnings = <<>> /\ clock_set_back = FALSE
RenderIdle ==
    /\ renderer = <<>> /\ rendered_release = <<>> /\ changelog = None

TemplateInit ==
    /\ PartitionIdle
    /\ RenderIdle
    /\ settings \in ChangelogSettings
    /\ selected = None

\* a call of get_changelog_template
SelectSimple ==
    /\ selected = None
    /\ selected' = Some([selector |-> "simple",
                         name |-> changelog_template_name(settings),
                         result |-> get_changelog_template(settings)])
    /\ UNCHANGED <<partition_vars, render_vars, settings>>

\* a call of get_package_changelog_template
SelectPackage ==
    /\ selected = None
    /\ selected' = Some([selector |-> "package",
                         name |-> package_template_name(settings),
                         result |-> get_package_changelog_template(settings)])
    /\ UNCHANGED <<partition_vars, render_vars, settings>>

\* a call of get_monorepo_changelog_template
SelectMonorepo ==
    /\ selected = None
    /\ selected' = Some([selector |-> "monorepo",
                         name |-> monorepo_template_name(settings),
                         result |-> get_monorepo_changelog_template(settings)])
    /\ UNCHANGED <<partition_vars, render_vars, settings>>

TemplateNext ==
    \/ SelectSimple
    \/ SelectPackage
    \/ SelectMonorepo

TemplateSpec == TemplateInit /\ [][TemplateNext]_vars

\* ------------------------------------------------------------------ rendering
\* The Renderer and its templates are not part of the sources at hand; they
\* are modelled from the specification (4.4) and from the outputs asserted
\* by the tests of release.rs.  A rendered changelog is a sequence of lines
\* [line, text, id]: the release heading, the packages header, one line per
\* package, the "Global changes" header, one line per changelog_title group
\* and one line per commit (id is the commit's position in release.commits).
TemplateKinds ==
    {"Default", "FullHash", "Remote",
     "PackageDefault", "PackageFullHash", "PackageRemote",
     "MonorepoDefault", "MonorepoFullHash", "MonorepoRemote"}
MonorepoKinds == {"MonorepoDefault", "MonorepoFullHash", "MonorepoRemote"}
FullHashKinds == {"FullHash", "PackageFullHash", "MonorepoFullHash"}

Titles == {"Features", "Bug Fixes"}
Scopes == {"parser", "cli"}

\* the ChangelogCommit lists of the rendered releases
ChangelogCommitsOf(n) ==
    { [i \in 1..n |-> [changelog_title |-> t[i], scope |-> sc[i], id |-> i]] :
        t \in [1..n -> Titles], sc \in [1..n -> OptionOf(Scopes)] }
ChangelogCommitLists == UNION { ChangelogCommitsOf(n) : n \in 0..MaxCommits }

\* MonoRepoContext as in monorepo_renderer / monorepo_manual_bump_rendered:
\* two packages, each with or without a previous version
PackageBumpContexts ==
    { <<[package_name |-> "one", version |-> "0.1.0", from |-> f1],
        [package_name |-> "two", version |-> "0.2.0", from |-> f2]>> :
        f1 \in OptionOf({"0.2.0"}), f2 \in OptionOf({"0.3.0"}) }
MonoRepoContexts == [package_lock : BOOLEAN, packages : PackageBumpContexts]

Line(line, text, id) == [line |-> line, text |-> text, id |-> id]

\* the changelog titles of a release in the order of their first appearance
\* in release.commits
titles_alphabetical(cs) ==
    (IF \E i \in 1..Len(cs) : cs[i].changelog_title = "Bug Fixes"
     THEN <<"Bug Fixes">> ELSE <<>>)
    \o (IF \E i \in 1..Len(cs) : cs[i].changelog_title = "Features"
        THEN <<"Features">> ELSE <<>>)

RECURSIVE titles_in_order(_)
titles_in_order(cs) ==
    IF cs = <<>> THEN <<>>
    ELSE LET rest == titles_in_order(SubSeq(cs, 1, Len(cs) - 1))
             t == cs[Len(cs)].changelog_title
         IN IF \E j \in 1..Len(rest) : rest[j] = t THEN rest ELSE Append(rest, t)

\* the commits of one title, in list order
typed_commits(cs, title) ==
    LET HasTitle(c) == c.changelog_title = title IN SelectSeq(cs, HasTitle)

\* the commits of one scope, in list order
scoped_commits(cs, scope) ==
    LET HasScope(c) == c.scope = Some(scope) IN SelectSeq(cs, HasScope)

\* the commits without a scope, in list order
unscoped(cs) ==
    LET NoScope(c) == c.scope = None IN SelectSeq(cs, NoScope)

commit_line(c) == Line("commit", c.changelog_title, c.id)

RECURSIVE commit_lines(_)
commit_lines(cs) ==
    IF cs = <<>> THEN <<>> ELSE <<commit_line(Head(cs))>> \o commit_lines(Tail(cs))

\* the commit lines of one group: the test outputs of release.rs show the
\* scoped commit of "Features" before the unscoped one although it is later
\* in release.commits: the commits are emitted scope by scope, the unscoped
\* ones last.  scope_order is the order in which the scopes are emitted.
RECURSIVE scoped_lines(_, _)
scoped_lines(cs, scope_order) ==
    IF scope_order = <<>> THEN <<>>
    ELSE commit_lines(scoped_commits(cs, Head(scope_order)))
             \o scoped_lines(cs, Tail(scope_order))

group_lines_in_list_order(cs, scope_order) == commit_lines(cs)

group_lines(cs, scope_order) ==
    scoped_lines(cs, scope_order) \o commit_lines(unscoped(cs))

RECURSIVE title_groups(_, _, _)
title_groups(cs, titles, scope_order) ==
    IF titles = <<>> THEN <<>>
    ELSE <<Line("group", Head(titles), 0)>>
             \o group_lines(typed_commits(cs, Head(titles)), scope_order)
             \o title_groups(cs, Tail(titles), scope_order)

\* the phrase of a package line: the package_lock flag alone decides
package_phrase_by_from(ctx, package) ==
    IF package.from = None THEN "locked to" ELSE "bumped to"

package_phrase(ctx, package) ==
    IF ctx.package_lock THEN "locked to" ELSE "bumped to"

RECURSIVE package_lines(_, _)
package_lines(ctx, packages) ==
    IF packages = <<>> THEN <<>>
    ELSE <<Line("package", package_phrase(ctx, Head(packages)), 0)>>
             \o package_lines(ctx, Tail(packages))

\* the packages block of the monorepo templates
packages_block(ctx) ==
    <<Line("packages", IF ctx.package_lock THEN "Packages" ELSE "Package updates", 0)>>
        \o package_lines(ctx, ctx.packages)
        \o <<Line("global", "Global changes", 0)>>

\* Renderer::render for one release
render(rel, rd, scope_order) ==
    (IF rd.kind \in FullHashKinds THEN <<>> ELSE <<Line("heading", rel.version, 0)>>)
    \o (IF rd.kind \in MonorepoKinds THEN packages_block(rd.monorepo_context) ELSE <<>>)
    \o title_groups(rel.commits, titles_in_order(rel.commits), scope_order)

\* the orders in which the two scopes can be emitted
ScopeOrders == {<<"parser", "cli">>, <<"cli", "parser">>}

RenderInit ==
    /\ PartitionIdle
    /\ settings = <<>>
    /\ selected = None
    /\ renderer \in [kind : TemplateKinds, monorepo_context : MonoRepoContexts]
    /\ rendered_release \in [version : {"1.0.0"}, commits : ChangelogCommitLists]
    /\ changelog = None

\* a call of Renderer::render; the order of the scope blocks inside a group
\* is not fixed by the sources at hand
Render ==
    /\ changelog = None
    /\ \E scope_order \in ScopeOrders :
           changelog' = Some(render(rendered_release, renderer, scope_order))
    /\ UNCHANGED <<partition_vars, selection_vars, renderer, rendered_release>>

RenderNext ==
    \/ Render

RenderSpec == RenderInit /\ [][RenderNext]_vars

\* ------------------------------------------------------------------ vocabulary of the properties
\* the call has returned
Done == pc = "done" /\ result # None
\* the call has returned Ok(release)
ReturnedOk == Done /\ result[1].ok
\* the call has returned Err(EmptyRelease)
ReturnedEmptyRelease == Done /\ ~result[1].ok /\ result[1].err = "EmptyRelease"

\* the releases of a chain, oldest first, following previous
RECURSIVE Chain(_)
Chain(r) ==
    IF r.previous = None THEN <<r>> ELSE Append(Chain(r.previous[1]), r)

ReturnedChain == Chain(result[1].release)

\* the input entry of a given age (hash 1 is the oldest, Len(commits) the newest)
InputByAge(h) == commits[Len(commits) - h + 1]
OldestInput == InputByAge(1)
NewestInput == InputByAge(Len(commits))
Tagged(entry) == entry.oid.kind = "Tag"
TaggedHashes == { h \in 1..Len(commits) : Tagged(InputByAge(h)) }
\* the input commits that reach the changelog: conventional and not omitted
Kept(entry) == entry.commit.message \notin ({"invalid"} \cup OmittedTypes)

\* the entries of a group, and its newest and oldest entry by age
Members(group) == { group[j] : j \in 1..Len(group) }
NewestOf(group) == CHOOSE e \in Members(group) :
                       \A f \in Members(group) : f.commit.hash <= e.commit.hash
OldestOf(group) == CHOOSE e \in Members(group) :
                       \A f \in Members(group) : f.commit.hash >= e.commit.hash
\* the hashes of the changelog commits of a release, in list order
Hashes(release) == [j \in 1..Len(release.commits) |-> release.commits[j].oid]
Flip(s) == [j \in 1..Len(s) |-> s[Len(s) + 1 - j]]
RECURSIVE Concat(_)
Concat(ss) == IF ss = <<>> THEN <<>> ELSE Head(ss) \o Concat(Tail(ss))
\* the hashes 1..n whose input commit is kept, oldest first
RECURSIVE KeptUpTo(_)
KeptUpTo(n) ==
    IF n = 0 THEN <<>>
    ELSE KeptUpTo(n - 1) \o (IF Kept(InputByAge(n)) THEN <<n>> ELSE <<>>)

\* ------------------------------------------------------------------ C1
\* C1: release_from_commits returns Err(EmptyRelease) if and only if the
\* input commit sequence is empty; for every non-empty input it returns
\* Ok(release).
C1_EmptyReleaseIffEmptyInput ==
    Done => /\ ReturnedEmptyRelease <=> (commits = <<>>)
            /\ (commits # <<>>) => result[1].ok

C1_Witness == ReturnedEmptyRelease /\ commits = <<>>

\* ------------------------------------------------------------------ C2
\* C2: for a non-empty input without any tagged identifier the call returns
\* exactly one release: previous is None, from is the identifier of the
\* oldest input commit and version the identifier of the newest one.
C2_NoTagSingleRelease ==
    (Done /\ commits # <<>> /\ TaggedHashes = {}) =>
        /\ result[1].ok
        /\ result[1].release.previous = None
        /\ Len(ReturnedChain) = 1
        /\ result[1].release.from = OldestInput.oid
        /\ result[1].release.version = NewestInput.oid

C2_Witness ==
    /\ ReturnedOk /\ Len(commits) >= 3 /\ TaggedHashes = {}
    /\ result[1].release.previous = None
    /\ result[1].release.from.hash = 1

\* ------------------------------------------------------------------ C3
\* C3: with k tagged identifiers in the input, the returned chain has k+1
\* releases when the newest input commit is newer than the last tag (it is
\* not itself tagged), and k releases otherwise.
C3_ChainLength ==
    ReturnedOk =>
        Len(ReturnedChain) =
            Cardinality(TaggedHashes) + (IF Tagged(NewestInput) THEN 0 ELSE 1)

C3_Witness ==
    /\ ReturnedOk /\ Cardinality(TaggedHashes) = 2
    /\ ~Tagged(NewestInput) /\ Len(ReturnedChain) = 3

\* ------------------------------------------------------------------ C4
\* C4: concatenating the commits of the chain's releases, oldest release
\* first and each release read oldest commit first, gives exactly the kept
\* input commits in oldest-to-newest order; no commit occurs twice.
C4_ConcatenationIsInput ==
    ReturnedOk =>
        LET chain == ReturnedChain
            all == Concat([i \in 1..Len(chain) |-> Flip(Hashes(chain[i]))])
        IN /\ all = KeptUpTo(Len(commits))
           /\ \A i, j \in 1..Len(all) : all[i] = all[j] => i = j

C4_Witness ==
    /\ ReturnedOk /\ Len(ReturnedChain) >= 2
    /\ \E h \in 1..Len(commits) : ~Kept(InputByAge(h))
    /\ \A i \in 1..Len(ReturnedChain) : Len(ReturnedChain[i].commits) >= 1
    /\ \E i \in 1..Len(ReturnedChain) : Len(ReturnedChain[i].commits) >= 2

\* ------------------------------------------------------------------ C5
\* C5: in every release of the returned chain the commits are newest first:
\* a commit that is later in the oldest-to-newest input comes earlier.
C5_NewestFirst ==
    ReturnedOk =>
        \A i \in 1..Len(ReturnedChain) :
            LET hs == Hashes(ReturnedChain[i]) IN
            \A a, b \in 1..Len(hs) : a < b => hs[a] > hs[b]

C5_Witness ==
    /\ ReturnedOk
    /\ \E i \in 1..Len(ReturnedChain) : Len(ReturnedChain[i].commits) >= 3
    /\ \E i \in 1..Len(ReturnedChain) :
           Len(ReturnedChain[i].commits) >= 2 /\ ~Tagged(NewestOf(releases[i]))

\* ------------------------------------------------------------------ C6
\* the index of the pushed group that holds the input commit of hash h
GroupOf(h) == CHOOSE g \in 1..Len(releases) :
                  \E e \in Members(releases[g]) : e.commit.hash = h
Grouped == pc \in {"fold", "done"}

\* C6: a tagged commit is a member of the group it closes and is that
\* group's newest element: no pushed group holds a commit newer than one of
\* its tagged commits, and the commit that follows a tag is in the next
\* (newer) group.
C6_TagClosesItsGroup ==
    /\ \A g \in 1..Len(releases) :
           \A e, f \in Members(releases[g]) :
               Tagged(e) => f.commit.hash <= e.commit.hash
    /\ Grouped =>
           \A h \in TaggedHashes :
               /\ \E g \in 1..Len(releases) : InputByAge(h) \in Members(releases[g])
               /\ h < Len(commits) => GroupOf(h + 1) = GroupOf(h) + 1

C6_Witness ==
    /\ Grouped /\ Len(releases) = 2 /\ Len(commits) = 4
    /\ Tagged(InputByAge(2)) /\ GroupOf(1) = 1 /\ GroupOf(2) = 1
    /\ GroupOf(3) = 2 /\ GroupOf(4) = 2

\* ------------------------------------------------------------------ C7
\* C7: the version of every release of the returned chain is the identifier
\* of the newest element of its group: a Tag identifier when the group was
\* closed by a tag, the newest untagged commit's identifier otherwise.
C7_VersionIsNewestOfGroup ==
    ReturnedOk =>
        /\ Len(ReturnedChain) = Len(releases)
        /\ \A i \in 1..Len(releases) :
               /\ ReturnedChain[i].version = NewestOf(releases[i]).oid
               /\ (\E e \in Members(releases[i]) : Tagged(e))
                      <=> ReturnedChain[i].version.kind = "Tag"

C7_Witness ==
    /\ ReturnedOk /\ Len(ReturnedChain) = 2
    /\ Len(releases[1]) >= 2 /\ Len(releases[2]) >= 2
    /\ ReturnedChain[1].version.kind = "Tag"
    /\ ReturnedChain[2].version.kind = "Other"
    /\ ReturnedChain[2].version.hash = Len(commits)

\* ------------------------------------------------------------------ C8
\* C8: for every release of the returned chain, from is the version of its
\* previous release when previous is present, and the identifier of the
\* oldest element of its own group when previous is None.
C8_FromIsPreviousVersionOrOldest ==
    ReturnedOk =>
        /\ Len(ReturnedChain) = Len(releases)
        /\ \A i \in 1..Len(releases) :
               LET r == ReturnedChain[i] IN
               IF r.previous # None
               THEN r.from = r.previous[1].version
               ELSE r.from = OldestOf(releases[i]).oid

C8_Witness ==
    /\ ReturnedOk /\ Len(ReturnedChain) = 3
    /\ Len(releases[1]) >= 2
    /\ ReturnedChain[1].previous = None
    /\ ReturnedChain[1].from.hash = 1
    /\ ReturnedChain[1].version.hash # ReturnedChain[1].from.hash
    /\ ReturnedChain[3].from = ReturnedChain[2].version
    /\ ReturnedChain[2].from # ReturnedChain[2].version

\* ------------------------------------------------------------------ C9
\* the release of the returned chain whose previous is None is the oldest
\* release of the range: it is the only one, and its group holds the oldest
\* input commit
OldestReleaseIsChainEnd ==
    /\ ReturnedChain[1].previous = None
    /\ \A i \in 2..Len(ReturnedChain) : ReturnedChain[i].previous # None
    /\ OldestInput \in Members(releases[1])

\* C9 as stated: the release with previous = None is the oldest release of
\* the range, its from is the oldest commit's identifier and is not a Tag
\* identifier, also when the oldest input element is a tagged commit.
C9_Original ==
    ReturnedOk =>
        /\ OldestReleaseIsChainEnd
        /\ ReturnedChain[1].from = OldestInput.oid
        /\ ReturnedChain[1].from.kind # "Tag"

\* C9 (amended): the release with previous = None is the oldest release of
\* the range and its from is the oldest commit's identifier; that identifier
\* is a Tag identifier exactly when the oldest input element is itself a
\* tagged commit, and then from equals the release's own version.
C9_FromIsOldestIdentifier ==
    ReturnedOk =>
        /\ OldestReleaseIsChainEnd
        /\ ReturnedChain[1].from = OldestInput.oid
        /\ ReturnedChain[1].from.kind = "Tag" <=> Tagged(OldestInput)
        /\ Tagged(OldestInput) => ReturnedChain[1].from = ReturnedChain[1].version

C9_Witness ==
    /\ ReturnedOk /\ Tagged(OldestInput) /\ Len(ReturnedChain) >= 2
    /\ ReturnedChain[1].previous = None
    /\ ReturnedChain[1].from.kind = "Tag"
    /\ ReturnedChain[1].from.hash = 1

\* ------------------------------------------------------------------ C10
Invalid(entry) == entry.commit.message = "invalid"

\* C10: a commit that fails conventional-commit parsing never makes the call
\* fail: every non-empty input returns Ok, no release holds such a commit, a
\* group whose commits all fail to parse still gives a release of the chain,
\* with an empty commits list, and version and from of every release are the
\* identifiers its group dictates whatever was dropped.
C10_ParseFailureIsDropped ==
    (Done /\ commits # <<>>) =>
        /\ result[1].ok
        /\ Len(ReturnedChain) = Len(releases)
        /\ \A i \in 1..Len(releases) :
               LET r == ReturnedChain[i] IN
               /\ \A j \in 1..Len(r.commits) : ~Invalid(InputByAge(r.commits[j].oid))
               /\ (\A e \in Members(releases[i]) : Invalid(e)) => r.commits = <<>>
               /\ r.version.hash = NewestOf(releases[i]).commit.hash
               /\ r.from.hash = IF i = 1 THEN OldestOf(releases[1]).commit.hash
                                ELSE NewestOf(releases[i - 1]).commit.hash

C10_Witness ==
    /\ ReturnedOk /\ Len(ReturnedChain) = 2
    /\ \A h \in 1..Len(commits) : Invalid(InputByAge(h))
    /\ Len(releases[1]) = 2 /\ Len(releases[2]) = 2
    /\ ReturnedChain[1].commits = <<>> /\ ReturnedChain[2].commits = <<>>
    /\ ReturnedChain[2].version.hash = 4 /\ ReturnedChain[2].from.hash = 2

\* ------------------------------------------------------------------ C11
\* the elements of a sequence
Range(s) == { s[j] : j \in 1..Len(s) }
Omitted(entry) == entry.commit.message \in OmittedTypes

\* C11: a raw commit of a group is in that release's commits if and only if
\* it parses and its type is not omitted, whatever the other commits of the
\* group are; a warning is logged for exactly the commits that fail to
\* parse, never for a commit whose type is omitted.
C11_KeptIffParsedAndNotOmitted ==
    ReturnedOk =>
        /\ \A i \in 1..Len(releases) :
               \A e \in Members(releases[i]) :
                   e.commit.hash \in Range(Hashes(ReturnedChain[i]))
                       <=> (~Invalid(e) /\ ~Omitted(e))
        /\ Range(warnings) = { h \in 1..Len(commits) : Invalid(InputByAge(h)) }
        /\ \A h \in 1..Len(commits) : Omitted(InputByAge(h)) => h \notin Range(warnings)

C11_Witness ==
    /\ ReturnedOk /\ Len(releases) = 1 /\ Len(commits) = 3
    /\ Omitted(InputByAge(2)) /\ Invalid(InputByAge(1)) /\ Kept(InputByAge(3))
    /\ Hashes(ReturnedChain[1]) = <<3>>
    /\ warnings = <<1>>

\* ------------------------------------------------------------------ C17
\* the dates of the returned chain, oldest release first
Dates == [i \in 1..Len(ReturnedChain) |-> ReturnedChain[i].date]
\* the clock reads 0 when release_from_commits is called
DatesInOrder ==
    /\ \A i, j \in 1..Len(Dates) : i < j => Dates[i] <= Dates[j]
    /\ \A i \in 1..Len(Dates) : Dates[i] >= 0

\* C17 as stated: along the returned chain, oldest to newest, the dates are
\* non-decreasing and none precedes the start of the call.
C17_Original == ReturnedOk => DatesInOrder

\* C17 (amended): every release gets as date the clock value read at the
\* moment it is constructed, never a date of its tag or commits, and the
\* releases built before keep their date; the dates along the chain are
\* non-decreasing and not before the start of the call as long as the wall
\* clock is not set back during the call.
C17_DateIsClockAtConstruction ==
    /\ [][release_idx' = release_idx + 1 =>
              /\ current'[1].date = now
              /\ current'[1].previous = current]_vars
    /\ []((ReturnedOk /\ ~clock_set_back) => DatesInOrder)

C17_Witness ==
    /\ ReturnedOk /\ ~clock_set_back
    /\ Len(ReturnedChain) = 3
    /\ Dates[1] = 0 /\ Dates[2] > Dates[1] /\ Dates[3] = Dates[2]

\* ------------------------------------------------------------------ C18
\* C18: in the returned chain only the newest release can have a version
\* that is not a Tag identifier: every release reachable through previous
\* has a Tag version, and every release with a previous has a Tag from.
C18_OnlyNewestVersionUntagged ==
    ReturnedOk =>
        /\ \A i \in 1..(Len(ReturnedChain) - 1) : ReturnedChain[i].version.kind = "Tag"
        /\ \A i \in 1..Len(ReturnedChain) :
               ReturnedChain[i].previous # None => ReturnedChain[i].from.kind = "Tag"

C18_Witness ==
    /\ ReturnedOk /\ Len(ReturnedChain) = 3
    /\ ReturnedChain[3].version.kind = "Other"
    /\ ReturnedChain[3].from.kind = "Tag"
    /\ ReturnedChain[1].from.kind = "Other"

\* ------------------------------------------------------------------ C19
\* the number of input elements held by the pushed groups
RECURSIVE GroupedCount(_)
GroupedCount(groups) ==
    IF groups = <<>> THEN 0 ELSE Len(Head(groups)) + GroupedCount(Tail(groups))

\* C19: every outer iteration of the grouping loop consumes at least one
\* input element: a pushed group is never empty and leaves fewer elements
\* in the iterator than there were when the iteration began, so there are
\* at most Len(commits) iterations, and first()/last() never panic in the
\* fold.
C19_OuterIterationConsumes ==
    /\ [][Len(releases') > Len(releases) =>
              /\ Len(releases') = Len(releases) + 1
              /\ Len(releases'[Len(releases')]) >= 1
              /\ Len(commit_iter') < Len(commits) - GroupedCount(releases)]_vars
    /\ [](/\ \A g \in 1..Len(releases) : releases[g] # <<>>
          /\ Len(releases) <= Len(commits)
          /\ pc \in {"while", "fold", "done"} =>
                 Len(commit_iter) + GroupedCount(releases) = Len(commits)
          /\ Done => (result[1].ok \/ result[1].err = "EmptyRelease"))

C19_Witness ==
    /\ ReturnedOk /\ Len(commits) = 4 /\ Len(releases) = 4
    /\ \A g \in 1..4 : Len(releases[g]) = 1

\* ------------------------------------------------------------------ C12
\* the configured name the selector reads: package_template for the package
\* selector, template for the simple and the monorepo selector
ConfiguredName(selector) ==
    IF selector = "package" THEN settings.package_template ELSE settings.template
RemoteLinkedNames == {"remote", "package_remote", "monorepo_remote"}
RemoteContextPresent ==
    settings.remote # None /\ settings.repository # None /\ settings.owner # None

\* C12: selecting a remote-linked template of any family while host,
\* repository and owner are not all present fails with the
\* missing-remote-context error; no template is returned.
C12_RemoteWithoutContextFails ==
    \A sel \in Range(selected) :
        (/\ ConfiguredName(sel.selector) # None
         /\ ConfiguredName(sel.selector)[1] \in RemoteLinkedNames
         /\ ~RemoteContextPresent)
        => (~sel.result.ok /\ sel.result.err = "MissingRemoteContext")

C12_Witness ==
    /\ selected # None
    /\ selected[1].selector = "package"
    /\ settings.package_template = Some("remote")
    /\ settings.remote # None /\ settings.owner = None
    /\ ~selected[1].result.ok

\* ------------------------------------------------------------------ C13
\* the name and the variant the claim gives for a selector and a configured name
ExpectedName(selector, configured) ==
    IF configured = None
    THEN (CASE selector = "simple" -> "default"
            [] selector = "package" -> "package_default"
            [] selector = "monorepo" -> "monorepo_default")
    ELSE IF configured[1] \in {"remote", "full_hash"}
         THEN (CASE selector = "simple" -> configured[1]
                 [] selector = "package" -> "package_" \o configured[1]
                 [] selector = "monorepo" -> "monorepo_" \o configured[1])
         ELSE configured[1]

ExpectedKind ==
    [n \in BuiltinNames |->
        CASE n = "default" -> "Default"
          [] n = "full_hash" -> "FullHash"
          [] n = "remote" -> "Remote"
          [] n = "package_default" -> "PackageDefault"
          [] n = "package_full_hash" -> "PackageFullHash"
          [] n = "package_remote" -> "PackageRemote"
          [] n = "monorepo_default" -> "MonorepoDefault"
          [] n = "monorepo_full_hash" -> "MonorepoFullHash"
          [] n = "monorepo_remote" -> "MonorepoRemote"]

\* C13: each selector maps the bare names "remote" and "full_hash" to the
\* remote-linked and full-hash variant of its own family, passes every other
\* name on unchanged, and takes its family's default when no name is set.
C13_BareNamesMapByFamily ==
    \A sel \in Range(selected) :
        LET expected == ExpectedName(sel.selector, ConfiguredName(sel.selector)) IN
        /\ sel.name = expected
        /\ (sel.result.ok /\ expected \in BuiltinNames)
               => sel.result.template.kind = ExpectedKind[expected]
        /\ (sel.result.ok /\ expected \notin BuiltinNames)
               => sel.result.template.name = expected

C13_Witness ==
    /\ selected # None
    /\ selected[1].selector = "monorepo"
    /\ settings.template = Some("full_hash")
    /\ selected[1].name = "monorepo_full_hash"
    /\ selected[1].result.ok
    /\ selected[1].result.template.kind = "MonorepoFullHash"

\* ------------------------------------------------------------------ vocabulary of the rendering properties
Rendered == changelog # None
Output == changelog[1]
RenderedCommits == rendered_release.commits
\* the position of the line of a commit, of the group line of a title
CommitPos(id) == CHOOSE k \in 1..Len(Output) :
                     Output[k].line = "commit" /\ Output[k].id = id
GroupPos(title) == CHOOSE k \in 1..Len(Output) :
                       Output[k].line = "group" /\ Output[k].text = title
TitlesPresent == { RenderedCommits[i].changelog_title : i \in 1..Len(RenderedCommits) }
FirstAppearance(title) ==
    CHOOSE i \in 1..Len(RenderedCommits) :
        /\ RenderedCommits[i].changelog_title = title
        /\ \A j \in 1..(i - 1) : RenderedCommits[j].changelog_title # title
\* every commit has exactly one line, every present title exactly one group line
EachEmittedOnce ==
    /\ \A i \in 1..Len(RenderedCommits) :
           Cardinality({ k \in 1..Len(Output) :
               Output[k].line = "commit" /\ Output[k].id = i }) = 1
    /\ \A t \in Titles :
           Cardinality({ k \in 1..Len(Output) :
               Output[k].line = "group" /\ Output[k].text = t })
               = IF t \in TitlesPresent THEN 1 ELSE 0

\* ------------------------------------------------------------------ C14
\* C14: the commits of a rendered release are grouped by changelog_title,
\* and the groups are emitted in the order in which each title first appears
\* in the release's commits.
C14_GroupsInFirstAppearanceOrder ==
    Rendered =>
        /\ EachEmittedOnce
        /\ \A i \in 1..Len(RenderedCommits) :
               LET t == RenderedCommits[i].changelog_title IN
               /\ GroupPos(t) < CommitPos(i)
               /\ \A u \in TitlesPresent :
                      GroupPos(u) < CommitPos(i) => GroupPos(u) <= GroupPos(t)
        /\ \A t, u \in TitlesPresent :
               FirstAppearance(t) < FirstAppearance(u) => GroupPos(t) < GroupPos(u)

C14_Witness ==
    /\ Rendered /\ Len(RenderedCommits) = 3
    /\ RenderedCommits[1].changelog_title = "Features"
    /\ RenderedCommits[2].changelog_title = "Bug Fixes"
    /\ RenderedCommits[3].changelog_title = "Features"
    /\ GroupPos("Features") < GroupPos("Bug Fixes")

\* ------------------------------------------------------------------ C15
SameGroup(a, b) == RenderedCommits[a].changelog_title = RenderedCommits[b].changelog_title

\* C15 as stated: for every template variant, the commits of one group are
\* emitted in the same relative order as in the release's commits list.
C15_Original ==
    Rendered =>
        \A a, b \in 1..Len(RenderedCommits) :
            (SameGroup(a, b) /\ a < b) => CommitPos(a) < CommitPos(b)

\* C15 (amended): for every template variant, inside one group the commits
\* that carry a scope are emitted before the commits without a scope; the
\* commits without a scope keep the relative order of the commits list, and
\* so do the commits of one and the same scope.
C15_ScopedFirstThenListOrder ==
    Rendered =>
        /\ EachEmittedOnce
        /\ \A a, b \in 1..Len(RenderedCommits) :
               SameGroup(a, b) =>
                   /\ (RenderedCommits[a].scope # None /\ RenderedCommits[b].scope = None)
                          => CommitPos(a) < CommitPos(b)
                   /\ (RenderedCommits[a].scope = RenderedCommits[b].scope /\ a < b)
                          => CommitPos(a) < CommitPos(b)

\* the release of Release::fixture and the order asserted by
\* should_render_default_template
C15_Witness ==
    /\ Rendered /\ renderer.kind = "Default" /\ Len(RenderedCommits) = 3
    /\ RenderedCommits[1].changelog_title = "Bug Fixes"
    /\ RenderedCommits[1].scope = Some("parser")
    /\ RenderedCommits[2].changelog_title = "Features"
    /\ RenderedCommits[2].scope = None
    /\ RenderedCommits[3].changelog_title = "Features"
    /\ RenderedCommits[3].scope = Some("parser")
    /\ GroupPos("Bug Fixes") < CommitPos(1)
    /\ CommitPos(1) < GroupPos("Features")
    /\ GroupPos("Features") < CommitPos(3)
    /\ CommitPos(3) < CommitPos(2)

\* ------------------------------------------------------------------ C16
PackageLinePositions == { k \in 1..Len(Output) : Output[k].line = "package" }

\* C16: in the monorepo variants every package line says "locked to" exactly
\* when package_lock is true and "bumped to" exactly when it is false,
\* whether or not the package entry has a previous version.
C16_LockedOrBumpedByPackageLock ==
    (Rendered /\ renderer.kind \in MonorepoKinds) =>
        /\ Cardinality(PackageLinePositions) = Len(renderer.monorepo_context.packages)
        /\ \A k \in PackageLinePositions :
               /\ Output[k].text = "locked to" <=> renderer.monorepo_context.package_lock
               /\ Output[k].text = "bumped to" <=> ~renderer.monorepo_context.package_lock

C16_Witness ==
    /\ Rendered /\ renderer.kind = "MonorepoRemote"
    /\ renderer.monorepo_context.package_lock
    /\ renderer.monorepo_context.packages[1].from # None
    /\ renderer.monorepo_context.packages[2].from = None
    /\ \A k \in PackageLinePositions : Output[k].text = "locked to"
    /\ Cardinality(PackageLinePositions) = 2

====
